---- MODULE Spec2Model ----
(***************************************************************************)
(* Model of the trading-assistant indicator engine (python/engine.py) and  *)
(* of analyze_stock (python/backend.py).                                   *)
(*                                                                         *)
(* Numbers.  The program computes in IEEE double precision.  The model     *)
(* computes in exact arithmetic: a real is a normalised fraction           *)
(* [n |-> numerator, d |-> denominator] with d > 0, NaN is the fraction    *)
(* 0/0, and the result of math.sqrt is kept as a surd [rad |-> q], the     *)
(* non-negative root of the fraction q.  Every comparison the program makes *)
(* is made on these exact values, so rounding error of the binary format   *)
(* is the one thing the model does not show.                               *)
(***************************************************************************)
EXTENDS Integers, Sequences, FiniteSets, TLC

VARIABLES
    prices,        \* the price series handed to the engine / extracted Close column
    out,           \* SpecEngine, SpecLevels: the outcome of the function applied to prices
    ind,           \* SpecClassify: the indicator inputs [ema, sma, rsi, vol]
    cls,           \* SpecClassify: the labels computed from ind
    date_from,     \* SpecDates: the start date string given to analyze_stock
    date_to,       \* SpecDates: the end date string given to analyze_stock
    today,         \* SpecDates: date.today()
    date_from_obj, \* SpecDates: the parsed start date, a day number
    date_to_obj,   \* SpecDates: the parsed end date, a day number
    pc,            \* SpecDates: position inside the date-adjustment block
    results        \* SpecAnalyze: what analyze_stock returned under each configuration

vars == <<prices, out, ind, cls, date_from, date_to, today, date_from_obj, date_to_obj, pc,
          results>>

(***************************************************************************)
(* Bounds of the model.                                                    *)
(***************************************************************************)
MaxLen == 5          \* SpecEngine: longest price series
MaxPrice == 3        \* SpecEngine: prices are 1..MaxPrice
LevelLen == 8        \* SpecLevels: longest price series
LevelPrice == 4      \* SpecLevels: prices are 1..LevelPrice
FetchLen == 3        \* SpecAnalyze: longest downloaded series
FetchPrice == 3      \* SpecAnalyze: prices are 1..FetchPrice
Slack == 1           \* SpecClassify, SpecDates: how far around each threshold inputs are drawn

(***************************************************************************)
(* Exact arithmetic.                                                       *)
(***************************************************************************)
Abs(x) == IF x < 0 THEN -x ELSE x

RECURSIVE GCD(_, _)
GCD(a, b) == IF b = 0 THEN a ELSE GCD(b, a % b)

Rat(num, den) ==
    LET s == IF den < 0 THEN -1 ELSE 1
        g == GCD(Abs(num), Abs(den))
    IN  IF den = 0 THEN [n |-> 0, d |-> 0]
        ELSE [n |-> (s * num) \div g, d |-> (s * den) \div g]

NaN == [n |-> 0, d |-> 0]
IsNaN(x) == x.d = 0
FromInt(i) == [n |-> i, d |-> 1]
Zero == FromInt(0)

RAdd(x, y) == IF IsNaN(x) \/ IsNaN(y) THEN NaN ELSE Rat(x.n * y.d + y.n * x.d, x.d * y.d)
RSub(x, y) == IF IsNaN(x) \/ IsNaN(y) THEN NaN ELSE Rat(x.n * y.d - y.n * x.d, x.d * y.d)
RMul(x, y) == IF IsNaN(x) \/ IsNaN(y) THEN NaN ELSE Rat(x.n * y.n, x.d * y.d)
RDiv(x, y) == IF IsNaN(x) \/ IsNaN(y) THEN NaN ELSE Rat(x.n * y.d, x.d * y.n)
\* Comparisons; as in IEEE arithmetic every comparison with NaN is false.
RLt(x, y) == ~IsNaN(x) /\ ~IsNaN(y) /\ x.n * y.d < y.n * x.d
RGt(x, y) == RLt(y, x)
RLe(x, y) == ~IsNaN(x) /\ ~IsNaN(y) /\ x.n * y.d <= y.n * x.d

\* math.sqrt of a non-negative fraction, kept exact as a surd.
Sqrt(q) == [rad |-> q]
\* surd > fraction and surd / fraction, for a fraction r >= 0 resp. s > 0
SurdGt(x, r) == RGt(x.rad, RMul(r, r))
SurdDiv(x, s) == [rad |-> RDiv(x.rad, RMul(s, s))]

(***************************************************************************)
(* Outcomes of a call: a returned value, or an exception that escapes.     *)
(***************************************************************************)
Returned(v) == [exc |-> "none", val |-> v]
Raised(e) == [exc |-> e, val |-> NaN]

\* np.asarray(prices, dtype=np.float64).flatten(): each price as a double
asarray(s) == [i \in 1..Len(s) |-> FromInt(s[i])]

RECURSIVE SumFrom(_, _)
SumFrom(arr, i) == IF i > Len(arr) THEN Zero ELSE RAdd(arr[i], SumFrom(arr, i + 1))

\* np.mean: the sum over the count; NaN for an empty array
np_mean(arr) == IF Len(arr) = 0 THEN NaN ELSE RDiv(SumFrom(arr, 1), FromInt(Len(arr)))

\* prices_array[k] with k counted from 0: IndexError outside the array
ArrayAt(arr, k) == IF k + 1 \in DOMAIN arr THEN Returned(arr[k + 1]) ELSE Raised("IndexError")

(***************************************************************************)
(* python/engine.py                                                        *)
(***************************************************************************)
alpha == Rat(1, 10)           \* calculate_ema(prices, alpha=0.1)
Neutral50 == FromInt(50)      \* calculate_rsi's value for fewer than 2 points
Hundred == FromInt(100)

calculate_volatility(p) ==
    IF Len(p) = 0 THEN Returned(Sqrt(Zero))
    ELSE LET prices_array == asarray(p)
             mean == np_mean(prices_array)
             dev2 == [i \in 1..Len(p) |->
                        RMul(RSub(prices_array[i], mean), RSub(prices_array[i], mean))]
             variance == np_mean(dev2)
         IN  Returned(Sqrt(variance))

calculate_sma(p) ==
    IF Len(p) = 0 THEN Returned(Zero)
    ELSE Returned(np_mean(asarray(p)))

\* Mutant of EmaLoop: the weight of the previous value is alpha, not 1 - alpha.
RECURSIVE EmaLoopSameWeight(_, _, _)
EmaLoopSameWeight(arr, i, ema) ==
    IF i > Len(arr) THEN ema
    ELSE EmaLoopSameWeight(arr, i + 1, RAdd(RMul(alpha, arr[i]), RMul(alpha, ema)))

\* for i in range(1, len(prices_array)): ema = alpha * prices_array[i] + (1 - alpha) * ema
RECURSIVE EmaLoop(_, _, _)
EmaLoop(arr, i, ema) ==
    IF i > Len(arr) THEN ema
    ELSE EmaLoop(arr, i + 1,
                 RAdd(RMul(alpha, arr[i]), RMul(RSub(FromInt(1), alpha), ema)))

\* Mutant of calculate_ema: no guard for the empty series.
calculate_ema_unguarded(p) ==
    LET prices_array == asarray(p)
        first == ArrayAt(prices_array, 0)
    IN  IF first.exc # "none" THEN first
        ELSE Returned(EmaLoop(prices_array, 2, first.val))

calculate_ema(p) ==
    IF Len(p) = 0 THEN Returned(Zero)
    ELSE LET prices_array == asarray(p)
             first == ArrayAt(prices_array, 0)
         IN  IF first.exc # "none" THEN first
             ELSE Returned(EmaLoop(prices_array, 2, first.val))

\* Mutant of RsiLoop: a loss is accumulated with its sign (loss += diff).
RECURSIVE RsiLoopSigned(_, _, _)
RsiLoopSigned(arr, i, acc) ==
    IF i > Len(arr) THEN acc
    ELSE LET diff == RSub(arr[i], arr[i - 1])
         IN  IF RGt(diff, Zero)
             THEN RsiLoopSigned(arr, i + 1, [gain |-> RAdd(acc.gain, diff), loss |-> acc.loss])
             ELSE RsiLoopSigned(arr, i + 1, [gain |-> acc.gain, loss |-> RAdd(acc.loss, diff)])

\* the gain/loss accumulation of calculate_rsi, from array position i on
RECURSIVE RsiLoop(_, _, _)
RsiLoop(arr, i, acc) ==
    IF i > Len(arr) THEN acc
    ELSE LET diff == RSub(arr[i], arr[i - 1])
         IN  IF RGt(diff, Zero)
             THEN RsiLoop(arr, i + 1, [gain |-> RAdd(acc.gain, diff), loss |-> acc.loss])
             ELSE RsiLoop(arr, i + 1, [gain |-> acc.gain, loss |-> RSub(acc.loss, diff)])

calculate_rsi(p) ==
    IF Len(p) < 2 THEN Returned(Neutral50)
    ELSE LET acc == RsiLoop(asarray(p), 2, [gain |-> Zero, loss |-> Zero])
         IN  IF acc.loss = Zero THEN Returned(Hundred)
             ELSE LET rs == RDiv(acc.gain, acc.loss)
                  IN  Returned(RSub(Hundred, RDiv(Hundred, RAdd(FromInt(1), rs))))

\* Mutant of SRLoop: the comparisons with the neighbours are not strict.
RECURSIVE SRLoopNonStrict(_, _, _)
SRLoopNonStrict(arr, i, acc) ==
    IF i > Len(arr) - 1 THEN acc
    ELSE LET s == IF RLe(arr[i], arr[i - 1]) /\ RLe(arr[i], arr[i + 1])
                  THEN Append(acc.supports, arr[i]) ELSE acc.supports
             r == IF RLe(arr[i - 1], arr[i]) /\ RLe(arr[i + 1], arr[i])
                  THEN Append(acc.resistances, arr[i]) ELSE acc.resistances
         IN  SRLoopNonStrict(arr, i + 1, [supports |-> s, resistances |-> r])

\* the loop of find_support_resistance over the interior positions, from i on
RECURSIVE SRLoop(_, _, _)
SRLoop(arr, i, acc) ==
    IF i > Len(arr) - 1 THEN acc
    ELSE LET s == IF RLt(arr[i], arr[i - 1]) /\ RLt(arr[i], arr[i + 1])
                  THEN Append(acc.supports, arr[i]) ELSE acc.supports
             r == IF RGt(arr[i], arr[i - 1]) /\ RGt(arr[i], arr[i + 1])
                  THEN Append(acc.resistances, arr[i]) ELSE acc.resistances
         IN  SRLoop(arr, i + 1, [supports |-> s, resistances |-> r])

find_support_resistance(p) ==
    IF Len(p) < 3 THEN Returned([supports |-> << >>, resistances |-> << >>])
    ELSE Returned(SRLoop(asarray(p), 2, [supports |-> << >>, resistances |-> << >>]))

(***************************************************************************)
(* SpecEngine: one call of one engine function on an arbitrary series.     *)
(***************************************************************************)
Unused == "unused"
NoCall == [fn |-> "none"]

RECURSIVE SeqsUpTo(_, _)
SeqsUpTo(S, n) == IF n = 0 THEN {<< >>} ELSE SeqsUpTo(S, n - 1) \cup [1..n -> S]

DatesUnused ==
    /\ date_from = Unused /\ date_to = Unused /\ today = Unused
    /\ date_from_obj = Unused /\ date_to_obj = Unused /\ pc = Unused
dateVars == <<date_from, date_to, today, date_from_obj, date_to_obj, pc>>

OthersUnused == ind = Unused /\ cls = Unused /\ DatesUnused /\ results = Unused

InitEngine ==
    /\ prices \in SeqsUpTo(1..MaxPrice, MaxLen)
    /\ out = NoCall
    /\ OthersUnused

Call(fn, res) ==
    /\ out = NoCall
    /\ out' = [fn |-> fn, res |-> res]
    /\ UNCHANGED <<prices, ind, cls, dateVars, results>>

CallVolatility == Call("calculate_volatility", calculate_volatility(prices))
CallSma == Call("calculate_sma", calculate_sma(prices))
CallEma == Call("calculate_ema", calculate_ema(prices))
CallRsi == Call("calculate_rsi", calculate_rsi(prices))
CallSupportResistance == Call("find_support_resistance", find_support_resistance(prices))

NextEngine ==
    \/ CallVolatility
    \/ CallSma
    \/ CallEma
    \/ CallRsi
    \/ CallSupportResistance

SpecEngine == InitEngine /\ [][NextEngine]_vars

(***************************************************************************)
(* python/backend.py, analyze_stock: the support and resistance levels.    *)
(***************************************************************************)
RECURSIVE array_min(_, _)
array_min(arr, i) ==
    IF i = Len(arr) THEN arr[i]
    ELSE LET m == array_min(arr, i + 1) IN IF RLt(arr[i], m) THEN arr[i] ELSE m

RECURSIVE array_max(_, _)
array_max(arr, i) ==
    IF i = Len(arr) THEN arr[i]
    ELSE LET m == array_max(arr, i + 1) IN IF RGt(arr[i], m) THEN arr[i] ELSE m

\* Mutant of Levels: the support level is the largest detected support.
LevelsMaxSupport(p) ==
    LET sr == find_support_resistance(p).val
        supports == sr.supports
        resistances == sr.resistances
    IN  [supports |-> supports,
         resistances |-> resistances,
         support_level |-> IF Len(supports) > 0 THEN array_max(supports, 1)
                           ELSE array_min(asarray(p), 1),
         resistance_level |-> IF Len(resistances) > 0 THEN array_max(resistances, 1)
                              ELSE array_max(asarray(p), 1)]

\* Mutant of Levels: without a detected support the level falls back to the
\* largest price.
LevelsFallbackMax(p) ==
    LET sr == find_support_resistance(p).val
        supports == sr.supports
        resistances == sr.resistances
    IN  [supports |-> supports,
         resistances |-> resistances,
         support_level |-> IF Len(supports) > 0 THEN array_min(supports, 1)
                           ELSE array_max(asarray(p), 1),
         resistance_level |-> IF Len(resistances) > 0 THEN array_max(resistances, 1)
                              ELSE array_max(asarray(p), 1)]

\* supports, resistances = find_support_resistance(prices) and the two levels;
\* p is the non-empty Close column (an empty one returns before this point)
Levels(p) ==
    LET sr == find_support_resistance(p).val
        supports == sr.supports
        resistances == sr.resistances
    IN  [supports |-> supports,
         resistances |-> resistances,
         support_level |-> IF Len(supports) > 0 THEN array_min(supports, 1)
                           ELSE array_min(asarray(p), 1),
         resistance_level |-> IF Len(resistances) > 0 THEN array_max(resistances, 1)
                              ELSE array_max(asarray(p), 1)]

(***************************************************************************)
(* SpecLevels: the levels analyze_stock derives from a non-empty series.   *)
(***************************************************************************)
InitLevels ==
    /\ prices \in SeqsUpTo(1..LevelPrice, LevelLen) \ {<< >>}
    /\ out = NoCall
    /\ OthersUnused

ComputeLevels == Call("levels", Levels(prices))

NextLevels == ComputeLevels

SpecLevels == InitLevels /\ [][NextLevels]_vars

(***************************************************************************)
(* python/backend.py, analyze_stock: the signals (lines 187-193).          *)
(***************************************************************************)
trend(ema, sma) ==
    IF RGt(ema, RMul(Rat(101, 100), sma)) THEN "bullish"
    ELSE IF RLt(ema, RMul(Rat(99, 100), sma)) THEN "bearish"
    ELSE "neutral"

momentum_status(rsi) ==
    IF RGt(rsi, FromInt(70)) THEN "Overbought"
    ELSE IF RLt(rsi, FromInt(30)) THEN "Oversold"
    ELSE "neutral"

\* vol / sma on Python floats: ZeroDivisionError for a zero divisor.  The
\* quotient of a surd by a positive fraction is a surd.
FloatDiv(vol, sma) ==
    IF sma = Zero THEN Raised("ZeroDivisionError") ELSE Returned(SurdDiv(vol, sma))

\* Mutant of risk_ratio: the guard is sma >= 0.
risk_ratio_guard_ge(vol, sma) ==
    IF RLe(Zero, sma) THEN FloatDiv(vol, sma) ELSE Returned(Sqrt(Zero))

\* risk_ratio = vol / sma if sma > 0 else 0
risk_ratio(vol, sma) ==
    IF RGt(sma, Zero) THEN FloatDiv(vol, sma) ELSE Returned(Sqrt(Zero))

risk(rr) ==
    IF SurdGt(rr, Rat(8, 100)) THEN "High Risk"
    ELSE IF SurdGt(rr, Rat(4, 100)) THEN "Medium Risk"
    ELSE "Low Risk"

\* Mutant of final_signal: BUY is allowed up to rsi = 60.
final_signal_rsi_le(tr, rsi, rk) ==
    IF tr = "bullish" /\ RLe(rsi, FromInt(60)) /\ rk # "High Risk" THEN "BUY"
    ELSE IF tr = "bearish" /\ RGt(rsi, FromInt(40)) THEN "SELL"
    ELSE "HOLD"

final_signal(tr, rsi, rk) ==
    IF tr = "bullish" /\ RLt(rsi, FromInt(60)) /\ rk # "High Risk" THEN "BUY"
    ELSE IF tr = "bearish" /\ RGt(rsi, FromInt(40)) THEN "SELL"
    ELSE "HOLD"

\* lines 187-193 on the indicator values; an exception leaves the block
Signals(ema, sma, rsi, vol) ==
    LET tr == trend(ema, sma)
        rr == risk_ratio(vol, sma)
    IN  IF rr.exc # "none" THEN rr
        ELSE LET rk == risk(rr.val)
             IN  Returned([trend |-> tr,
                           momentum |-> momentum_status(rsi),
                           risk_ratio |-> rr.val,
                           risk |-> rk,
                           signal |-> final_signal(tr, rsi, rk)])

(***************************************************************************)
(* SpecClassify: the signals on arbitrary indicator values.  The values    *)
(* are drawn around each threshold of the rules: ema and vol around the    *)
(* bands of sma = 100 and sma = -100, rsi around 30, 40, 60 and 70.        *)
(***************************************************************************)
Around(c) == (c - Slack)..(c + Slack)
SmaVals == {-100, 0, 100}
EmaVals == Around(99) \cup Around(101) \cup {-e : e \in Around(99) \cup Around(101)} \cup {0}
RsiVals == Around(30) \cup Around(40) \cup Around(60) \cup Around(70) \cup {0, 100}
VolVals == Around(4) \cup Around(8) \cup {0}

InitClassify ==
    /\ ind \in [ema : EmaVals, sma : SmaVals, rsi : RsiVals, vol : VolVals]
    /\ cls = NoCall
    /\ prices = Unused /\ out = Unused /\ DatesUnused /\ results = Unused

Classify ==
    /\ cls = NoCall
    /\ cls' = [fn |-> "signals",
               res |-> Signals(FromInt(ind.ema), FromInt(ind.sma), FromInt(ind.rsi),
                               Sqrt(FromInt(ind.vol * ind.vol)))]
    /\ UNCHANGED <<prices, out, ind, dateVars, results>>

NextClassify == Classify

SpecClassify == InitClassify /\ [][NextClassify]_vars

(***************************************************************************)
(* python/backend.py, analyze_stock: "Validate and adjust dates"           *)
(* (lines 103-133).  A date is its day number; a date string is            *)
(* [ok |-> FALSE] when strptime rejects it and [ok |-> TRUE, day |-> n]    *)
(* otherwise.  SpecDates takes the block one statement at a time.          *)
(***************************************************************************)
strftime(day) == [ok |-> TRUE, day |-> day]
Malformed == [ok |-> FALSE]
lookback_days == 365 * 5        \* timedelta(days=365*5)
reset_days == 30                \* timedelta(days=30)

\* day numbers of today, and of the dates given, around each date the block
\* compares with
Todays == Around(5000)
DateStrings ==
    {strftime(t + k) : t \in Todays,
                       k \in Around(0) \cup Around(-reset_days) \cup Around(-lookback_days)
                             \cup {-3000, 400}}
    \cup {Malformed}

InitDates ==
    /\ date_from \in DateStrings
    /\ date_to \in DateStrings
    /\ today \in Todays
    /\ date_from_obj = Unused /\ date_to_obj = Unused
    /\ pc = "parse"
    /\ prices = Unused /\ out = Unused /\ ind = Unused /\ cls = Unused /\ results = Unused

notDates == <<prices, out, ind, cls, results>>

\* lines 105-107 and 131-133: strptime of both strings; ValueError returns None
ParseDates ==
    /\ pc = "parse"
    /\ IF date_from.ok /\ date_to.ok
       THEN /\ date_from_obj' = date_from.day
            /\ date_to_obj' = date_to.day
            /\ pc' = "clamp_end"
       ELSE /\ pc' = "return_none"
            /\ UNCHANGED <<date_from_obj, date_to_obj>>
    /\ UNCHANGED <<date_from, date_to, today, notDates>>

\* lines 109-112
ClampEnd ==
    /\ pc = "clamp_end"
    /\ IF date_to_obj > today
       THEN date_to_obj' = today /\ date_to' = strftime(today)
       ELSE UNCHANGED <<date_to_obj, date_to>>
    /\ pc' = "reset_start"
    /\ UNCHANGED <<date_from, date_from_obj, today, notDates>>

\* lines 114-117
ResetStart ==
    /\ pc = "reset_start"
    /\ IF date_from_obj > today
       THEN date_from_obj' = today - reset_days /\ date_from' = strftime(today - reset_days)
       ELSE UNCHANGED <<date_from_obj, date_from>>
    /\ pc' = "swap"
    /\ UNCHANGED <<date_to, date_to_obj, today, notDates>>

\* lines 119-122
SwapDates ==
    /\ pc = "swap"
    /\ IF date_from_obj > date_to_obj
       THEN /\ date_from_obj' = date_to_obj /\ date_to_obj' = date_from_obj
            /\ date_from' = date_to /\ date_to' = date_from
       ELSE UNCHANGED <<date_from_obj, date_to_obj, date_from, date_to>>
    /\ pc' = "clamp_lookback"
    /\ UNCHANGED <<today, notDates>>

\* lines 124-130
ClampLookback ==
    /\ pc = "clamp_lookback"
    /\ LET max_lookback == today - lookback_days
       IN  IF date_from_obj < max_lookback
           THEN date_from_obj' = max_lookback /\ date_from' = strftime(max_lookback)
           ELSE UNCHANGED <<date_from_obj, date_from>>
    /\ pc' = "using_dates"
    /\ UNCHANGED <<date_to, date_to_obj, today, notDates>>

NextDates ==
    \/ ParseDates
    \/ ClampEnd
    \/ ResetStart
    \/ SwapDates
    \/ ClampLookback

SpecDates == InitDates /\ [][NextDates]_vars

(***************************************************************************)
(* python/backend.py, analyze_stock from the extracted Close prices on     *)
(* (lines 172-262).  The record's volatility_percent and chart entries,    *)
(* which repeat vol, sma and the downloaded frame for display, are left    *)
(* out of the modelled record.                                             *)
(***************************************************************************)
\* round(x, 2) of a fraction: the nearest hundredth, a tie going to the even one
Round2(x) ==
    LET m == 100 * x.n
        q == m \div x.d
        r == m % x.d
        k == IF 2 * r > x.d THEN q + 1
             ELSE IF 2 * r < x.d THEN q
             ELSE IF q % 2 = 0 THEN q ELSE q + 1
    IN  Rat(k, 100)

\* round(x, 2) of a surd: the k with k - 1/2 <= 100 * sqrt(rad) < k + 1/2
Round2Surd(x) ==
    LET a == x.rad.n
        b == x.rad.d
        top == 100 * ((a \div b) + 1)
        k == CHOOSE j \in 0..top :
                /\ (j = 0 \/ (2 * j - 1) * (2 * j - 1) * b <= 40000 * a)
                /\ (2 * j + 1) * (2 * j + 1) * b > 40000 * a
        tie == k > 0 /\ (2 * k - 1) * (2 * k - 1) * b = 40000 * a
    IN  Rat(IF tie /\ k % 2 = 1 THEN k - 1 ELSE k, 100)

None == [none |-> TRUE]
Record(r) == [none |-> FALSE, record |-> r]

\* lines 195-219: gemini is [available, key, ai_ok]: the import succeeded, the
\* API key is set, and whether generate_content answers or raises.
\* current_price_safe is assigned inside the if-block only.
AIExplanation(p, gemini) ==
    IF gemini.available /\ gemini.key
    THEN [current_price_safe |-> [bound |-> TRUE, val |-> asarray(p)[Len(p)]],
          ai_explanation |-> IF gemini.ai_ok THEN "text" ELSE "None"]
    ELSE [current_price_safe |-> [bound |-> FALSE],
          ai_explanation |-> "None"]

\* reading a local variable: UnboundLocalError when it was never assigned
ReadLocal(v) == IF v.bound THEN Returned(v.val) ELSE Raised("UnboundLocalError")

\* the whole body; every exception is caught at line 258 and None returned
analyze_stock(p, gemini) ==
    IF Len(p) = 0 THEN None
    ELSE LET vol == calculate_volatility(p)
             sma == calculate_sma(p)
             ema == calculate_ema(p)
             rsi == calculate_rsi(p)
         IN  IF \E o \in {vol, sma, ema, rsi} : o.exc # "none" THEN None
             ELSE LET lv == Levels(p)
                      sig == Signals(ema.val, sma.val, rsi.val, vol.val)
                      ai == AIExplanation(p, gemini)
                      current_price == ReadLocal(ai.current_price_safe)
                  IN  IF sig.exc # "none" \/ current_price.exc # "none" THEN None
                      ELSE Record([volatility |-> Round2Surd(vol.val),
                                   sma |-> Round2(sma.val),
                                   ema |-> Round2(ema.val),
                                   rsi |-> Round2(rsi.val),
                                   support |-> Round2(lv.support_level),
                                   resistance |-> Round2(lv.resistance_level),
                                   trend |-> sig.val.trend,
                                   momentum |-> sig.val.momentum,
                                   risk |-> sig.val.risk,
                                   signal |-> sig.val.signal,
                                   current_price |-> Round2(current_price.val),
                                   ai_explanation |-> ai.ai_explanation])

(***************************************************************************)
(* SpecAnalyze: analyze_stock called on the same downloaded prices under   *)
(* each configuration of the text-generation service.                      *)
(***************************************************************************)
Configs == [available : BOOLEAN, key : BOOLEAN, ai_ok : BOOLEAN]

InitAnalyze ==
    /\ prices \in SeqsUpTo(1..FetchPrice, FetchLen)
    /\ results = [c \in Configs |-> [done |-> FALSE]]
    /\ out = Unused /\ ind = Unused /\ cls = Unused /\ DatesUnused

AnalyzeStock(c) ==
    /\ ~results[c].done
    /\ results' = [results EXCEPT ![c] = [done |-> TRUE, ret |-> analyze_stock(prices, c)]]
    /\ UNCHANGED <<prices, out, ind, cls, dateVars>>

NextAnalyze == \E c \in Configs : AnalyzeStock(c)

SpecAnalyze == InitAnalyze /\ [][NextAnalyze]_vars

(***************************************************************************)
(* Properties.  The reference definitions below state what the             *)
(* specification says, on the integer prices, without the program's loops. *)
(***************************************************************************)
Called(fn) == out.fn = fn
N == Len(prices)
IsConstantSeries == N >= 1 /\ \A i \in 1..N : prices[i] = prices[1]

RECURSIVE SumOver(_, _)
SumOver(f, S) == IF S = {} THEN 0 ELSE LET x == CHOOSE y \in S : TRUE
                                        IN  f[x] + SumOver(f, S \ {x})

\* the interior positions that are strictly below / above both neighbours
SupportIdx == {i \in 2..(N - 1) : prices[i] < prices[i - 1] /\ prices[i] < prices[i + 1]}
ResistanceIdx == {i \in 2..(N - 1) : prices[i] > prices[i - 1] /\ prices[i] > prices[i + 1]}
\* the prices at the positions I, in increasing position order
PricesAt(I) ==
    LET nth == [j \in 1..Cardinality(I) |->
                  CHOOSE i \in I : Cardinality({m \in I : m < i}) = j - 1]
    IN  [j \in 1..Cardinality(I) |-> FromInt(prices[nth[j]])]

\* C2: find_support_resistance returns as supports exactly the values at the
\* interior positions strictly below both neighbours and as resistances exactly
\* those strictly above both, each in position order; no position is in both
\* lists, and both lists are empty for fewer than 3 points.
C2_SupportResistanceExact ==
    Called("find_support_resistance") =>
        /\ out.res = Returned([supports |-> PricesAt(SupportIdx),
                               resistances |-> PricesAt(ResistanceIdx)])
        /\ Len(out.res.val.supports) + Len(out.res.val.resistances)
              = Cardinality(SupportIdx \cup ResistanceIdx)
        /\ N < 3 => out.res.val.supports = << >> /\ out.res.val.resistances = << >>

C2_Witness ==
    /\ Called("find_support_resistance")
    /\ Len(out.res.val.supports) > 0
    /\ Len(out.res.val.resistances) > 0
    /\ \E i \in 2..(N - 1) : prices[i] = prices[i - 1]

GainOf == SumOver([i \in 2..N |-> IF prices[i] > prices[i - 1]
                                  THEN prices[i] - prices[i - 1] ELSE 0], 2..N)
LossOf == SumOver([i \in 2..N |-> IF prices[i] < prices[i - 1]
                                  THEN prices[i - 1] - prices[i] ELSE 0], 2..N)

\* C4: calculate_rsi is 50.0 below 2 points; otherwise 100.0 when loss = 0 and
\* 100 - 100/(1 + gain/loss) when loss > 0; the result lies in [0, 100].
C4_RsiValue ==
    Called("calculate_rsi") =>
        /\ out.res.exc = "none"
        /\ out.res.val =
              IF N < 2 THEN FromInt(50)
              ELSE IF LossOf = 0 THEN FromInt(100)
              ELSE RSub(FromInt(100),
                        RDiv(FromInt(100), RAdd(FromInt(1), Rat(GainOf, LossOf))))
        /\ RLe(Zero, out.res.val) /\ RLe(out.res.val, FromInt(100))

C4_Witness ==
    /\ Called("calculate_rsi")
    /\ GainOf > 0 /\ LossOf > 0 /\ GainOf # LossOf
    /\ \E i \in 2..N : prices[i] = prices[i - 1]

\* C5: no engine function raises, and on short input each returns its
\* sentinel: 0.0 from volatility, sma and ema on the empty series, 50.0 from
\* rsi below 2 points, two empty lists from find_support_resistance below 3.
C5_TotalOnShortInput ==
    /\ ~Called("none") => out.res.exc = "none"
    /\ N = 0 /\ Called("calculate_volatility") => out.res = Returned(Sqrt(Zero))
    /\ N = 0 /\ Called("calculate_sma") => out.res = Returned(Zero)
    /\ N = 0 /\ Called("calculate_ema") => out.res = Returned(Zero)
    /\ N < 2 /\ Called("calculate_rsi") => out.res = Returned(FromInt(50))
    /\ N < 3 /\ Called("find_support_resistance") =>
          out.res = Returned([supports |-> << >>, resistances |-> << >>])

C5_Witness == N = 0 /\ Called("calculate_ema") /\ out.res = Returned(Zero)

\* the least / greatest of a non-empty set of integer prices, as a fraction
LeastOf(S) == FromInt(CHOOSE x \in S : \A y \in S : x <= y)
GreatestOf(S) == FromInt(CHOOSE x \in S : \A y \in S : x >= y)
AllPrices == {prices[i] : i \in 1..N}
MinPrice == LeastOf(AllPrices)
MaxPriceOf == GreatestOf(AllPrices)

Classified == cls.fn = "signals"
RatioAbove(pct) == ind.sma > 0 /\ ind.vol * 100 > pct * ind.sma
RiskRef == IF RatioAbove(8) THEN "High Risk" ELSE IF RatioAbove(4) THEN "Medium Risk"
           ELSE "Low Risk"
AboveBand == ind.ema * 100 > 101 * ind.sma
BelowBand == ind.ema * 100 < 99 * ind.sma
BuyRef == AboveBand /\ ind.rsi < 60 /\ RiskRef # "High Risk"

\* C1 as stated: the signal is buy exactly when ema > 1.01*sma and rsi < 60 and
\* the risk is not high; otherwise sell exactly when ema < 0.99*sma and
\* rsi > 40; otherwise hold.  Every input gets exactly one of the three.
C1_SignalTableOriginal ==
    Classified =>
        /\ cls.res.exc = "none"
        /\ cls.res.val.signal \in {"BUY", "SELL", "HOLD"}
        /\ cls.res.val.signal =
              IF BuyRef THEN "BUY"
              ELSE IF BelowBand /\ ind.rsi > 40 THEN "SELL"
              ELSE "HOLD"

\* C1 amended: as C1, but sell needs the trend to be bearish, that is
\* ema < 0.99*sma and not ema > 1.01*sma (both hold at once for sma < 0).
C1_SignalTable ==
    Classified =>
        /\ cls.res.exc = "none"
        /\ cls.res.val.signal \in {"BUY", "SELL", "HOLD"}
        /\ cls.res.val.signal =
              IF BuyRef THEN "BUY"
              ELSE IF BelowBand /\ ~AboveBand /\ ind.rsi > 40 THEN "SELL"
              ELSE "HOLD"

C1_Witness ==
    /\ Classified
    /\ AboveBand /\ BelowBand /\ ind.rsi >= 60
    /\ cls.res.val.signal = "HOLD"

\* C6: the risk ratio is volatility/sma when sma > 0 and 0 when sma <= 0, with
\* no division in that case; the label is high above 0.08, medium above 0.04
\* up to 0.08, low otherwise, so sma <= 0 always gives low.
C6_RiskRatio ==
    Classified =>
        /\ cls.res.exc = "none"
        /\ cls.res.val.risk_ratio =
              IF ind.sma > 0 THEN Sqrt(Rat(ind.vol * ind.vol, ind.sma * ind.sma))
              ELSE Sqrt(Zero)
        /\ cls.res.val.risk = RiskRef
        /\ ind.sma <= 0 => cls.res.val.risk = "Low Risk"

C6_Witness ==
    /\ Classified
    /\ ind.sma = 0 /\ ind.vol > 0
    /\ cls.res = Returned([trend |-> trend(FromInt(ind.ema), Zero),
                           momentum |-> momentum_status(FromInt(ind.rsi)),
                           risk_ratio |-> Sqrt(Zero), risk |-> "Low Risk",
                           signal |-> cls.res.val.signal])

\* C10: after the date adjustments the start date is not after the end date,
\* the end date is not after today, and the start date is not earlier than
\* today minus 5*365 days.
C10_DatesOrdered ==
    pc = "using_dates" =>
        /\ date_from_obj <= date_to_obj
        /\ date_to_obj <= today
        /\ date_from_obj >= today - 5 * 365

\* what analyze_stock returned, without the ai_explanation entry
Analysis(ret) ==
    IF ret.none THEN None
    ELSE Record([f \in (DOMAIN ret.record) \ {"ai_explanation"} |-> ret.record[f]])

\* C8: for the same downloaded prices analyze_stock returns the same record,
\* ai_explanation aside, whether the text-generation service is configured
\* and answers, configured and fails, or not configured.
C8_EnrichmentOptional ==
    \A c1, c2 \in Configs :
        results[c1].done /\ results[c2].done =>
            Analysis(results[c1].ret) = Analysis(results[c2].ret)

====
